---- MODULE Spec2Model ----
(***************************************************************************)
(* A model of the liner line editor: the scrollback history and its        *)
(* read/write lock, the kill ring, and the Prompt key-dispatch loop with   *)
(* its completion, yank and reverse-i-search sub-modes.                    *)
(*                                                                         *)
(* A Go string is a sequence of bytes, a []rune a sequence of code points; *)
(* string(r) and []rune(s) are the UTF-8 encoder and decoder.  A key       *)
(* returned by readNext is an interface value: [t |-> "rune", v |-> c],    *)
(* [t |-> "action", v |-> a] or, for an untyped constant, "int".           *)
(***************************************************************************)
EXTENDS Integers, Sequences, FiniteSets, TLC

\* ------------------------------------------------------------ constants

KillRingMax == 60
HistoryLimit == 1000

\* action values (iota)
left == 0
right == 1
up == 2
down == 3
home == 4
end == 5
insert == 6
del == 7
pageUp == 8
pageDown == 9
f1 == 10
altY == 22
shiftTab == 23
wordLeft == 24
wordRight == 25
winch == 26
unknown == 27

\* control codes
ctrlA == 1
ctrlB == 2
ctrlC == 3
ctrlD == 4
ctrlE == 5
ctrlF == 6
ctrlG == 7
ctrlH == 8
tab == 9
lf == 10
ctrlK == 11
ctrlL == 12
cr == 13
ctrlN == 14
ctrlO == 15
ctrlP == 16
ctrlQ == 17
ctrlR == 18
ctrlS == 19
ctrlT == 20
ctrlU == 21
ctrlV == 22
ctrlW == 23
ctrlX == 24
ctrlY == 25
ctrlZ == 26
esc == 27
bs == 127

\* utf8.RuneError, the code point an invalid encoding decodes to
RuneError == 65533

\* ------------------------------------------------------------ bounds

\* longest line buffer, in code points, the model lets a session build
MaxLen == 2
\* most segments the model lets the kill ring of a session hold
MaxRing == 2
\* longest reverse-i-search pattern, in code points
MaxPat == 2
\* history calls the model follows per run
MaxCalls == 3

\* most presses of a history key in one run of presses
MaxPress == 3
\* most entries of a history that is written and read back
MaxTrip == 3
\* most kills in one run of consecutive kills
MaxRun == 2
\* widest terminal and longest buffer of the calls of refresh on their own
MaxCols == 5
MaxBuf == 5
\* kills the model follows on a kill ring that is already full
MaxFresh == 1

\* ------------------------------------------------------------ Go values

Min(a, b) == IF a < b THEN a ELSE b

\* s[lo:hi] of Go, on a 1-based sequence: elements lo+1 .. hi
Slice(s, lo, hi) == SubSeq(s, lo + 1, hi)

RuneKey(c) == [t |-> "rune", v |-> c]
ActionKey(a) == [t |-> "action", v |-> a]
\* an untyped integer constant stored in an interface{} has type int
\* a cancelled search that hands back the carriage return
ReturnKey(c) == [t |-> "rune", v |-> cr]

IntKey(c) == [t |-> "int", v |-> c]

IsRune(k, c) == k.t = "rune" /\ k.v = c
IsAction(k, a) == k.t = "action" /\ k.v = a

\* unicode.IsSpace: the White_Space code points
IsSpace(c) ==
    \/ c \in {9, 10, 11, 12, 13, 32, 133, 160, 5760, 8232, 8233, 8239, 8287, 12288}
    \/ (c >= 8192 /\ c <= 8202)

\* the UTF-8 encoding of one code point (utf8.EncodeRune)
EncodeRune(c) ==
    IF c < 0 \/ c > 1114111 \/ (c >= 55296 /\ c <= 57343)
    THEN <<239, 191, 189>>
    ELSE IF c < 128 THEN <<c>>
    ELSE IF c < 2048 THEN <<192 + (c \div 64), 128 + (c % 64)>>
    ELSE IF c < 65536
    THEN <<224 + (c \div 4096), 128 + ((c \div 64) % 64), 128 + (c % 64)>>
    ELSE <<240 + (c \div 262144), 128 + ((c \div 4096) % 64),
           128 + ((c \div 64) % 64), 128 + (c % 64)>>

\* string(runes)
RECURSIVE String(_)
String(r) == IF r = <<>> THEN <<>> ELSE EncodeRune(Head(r)) \o String(Tail(r))

IsCont(b) == b >= 128 /\ b <= 191

\* utf8.DecodeRune on the front of b: the code point and its width; an
\* invalid or short encoding is RuneError of width 1
DecodeRune(b) ==
    LET b0 == b[1]
        n == Len(b)
    IN  IF b0 < 128 THEN [r |-> b0, w |-> 1]
        ELSE IF b0 >= 194 /\ b0 <= 223 /\ n >= 2 /\ IsCont(b[2])
        THEN [r |-> (b0 - 192) * 64 + (b[2] - 128), w |-> 2]
        ELSE IF b0 >= 224 /\ b0 <= 239 /\ n >= 3 /\ IsCont(b[2]) /\ IsCont(b[3])
                /\ (b0 = 224 => b[2] >= 160) /\ (b0 = 237 => b[2] <= 159)
        THEN [r |-> (b0 - 224) * 4096 + (b[2] - 128) * 64 + (b[3] - 128), w |-> 3]
        ELSE IF b0 >= 240 /\ b0 <= 244 /\ n >= 4
                /\ IsCont(b[2]) /\ IsCont(b[3]) /\ IsCont(b[4])
                /\ (b0 = 240 => b[2] >= 144) /\ (b0 = 244 => b[2] <= 143)
        THEN [r |-> (b0 - 240) * 262144 + (b[2] - 128) * 4096
                     + (b[3] - 128) * 64 + (b[4] - 128), w |-> 4]
        ELSE [r |-> RuneError, w |-> 1]

\* []rune(s)
RECURSIVE Runes(_)
Runes(s) ==
    IF s = <<>> THEN <<>>
    ELSE LET d == DecodeRune(s)
         IN  <<d.r>> \o Runes(Slice(s, d.w, Len(s)))

\* utf8.RuneCountInString
RuneCountInString(s) == Len(Runes(s))

\* utf8.Valid: no position decodes to an invalid encoding
RECURSIVE Valid(_)
Valid(s) ==
    IF s = <<>> THEN TRUE
    ELSE LET d == DecodeRune(s)
         IN  /\ ~(d.r = RuneError /\ d.w = 1)
             /\ Valid(Slice(s, d.w, Len(s)))

\* strings.HasPrefix
HasPrefix(s, prefix) ==
    Len(s) >= Len(prefix) /\ Slice(s, 0, Len(prefix)) = prefix

\* strings.Index: the byte offset of the first occurrence, or -1
Index(s, sub) ==
    LET hits == {i \in 0..(Len(s) - Len(sub)) : Slice(s, i, i + Len(sub)) = sub}
    IN  IF hits = {} THEN -1
        ELSE CHOOSE i \in hits : \A j \in hits : i <= j

\* Go's integer division truncates toward zero
GoDiv(a, b) == IF a >= 0 THEN a \div b ELSE -((-a) \div b)

\* ------------------------------------------------------------ history

\* the append-and-trim shared by ReadHistory and AppendHistory
Push(h, item) ==
    LET h1 == Append(h, item)
    IN  IF Len(h1) > HistoryLimit THEN Tail(h1) ELSE h1

\* AppendHistory between Lock and Unlock
AppendHistoryBody(h, item) ==
    IF Len(h) > 0 /\ item = h[Len(h)] THEN h ELSE Push(h, item)

\* size of the buffer of bufio.NewReader
ReaderBufSize == 4096

\* bufio.Reader.ReadLine on the unread bytes r (non-empty): the line without
\* its end-of-line bytes, whether it is only a part, and the bytes left
ReadLine(r) ==
    LET nl == Index(r, <<10>>)
    IN  IF (nl < 0 /\ Len(r) >= ReaderBufSize) \/ nl >= ReaderBufSize
        THEN LET full == Slice(r, 0, ReaderBufSize)
                 keep == IF full[ReaderBufSize] = 13
                         THEN ReaderBufSize - 1 ELSE ReaderBufSize
             IN  [line |-> Slice(r, 0, keep), part |-> TRUE,
                  rest |-> Slice(r, keep, Len(r))]
        ELSE IF nl < 0
        THEN [line |-> r, part |-> FALSE, rest |-> <<>>]
        ELSE LET drop == IF nl > 0 /\ r[nl] = 13 THEN 1 ELSE 0
             IN  [line |-> Slice(r, 0, nl - drop), part |-> FALSE,
                  rest |-> Slice(r, nl + 1, Len(r))]

\* ReadHistory between Lock and Unlock: the loop over the lines of r
RECURSIVE ReadHistoryBody(_, _, _)
ReadHistoryBody(h, r, num) ==
    IF r = <<>> THEN [history |-> h, num |-> num, err |-> "nil"]
    ELSE LET l == ReadLine(r)
         IN  IF l.part THEN [history |-> h, num |-> num, err |-> "too long"]
             ELSE IF ~Valid(l.line)
             THEN [history |-> h, num |-> num, err |-> "invalid string"]
             ELSE ReadHistoryBody(Push(h, l.line), l.rest, num + 1)

\* the bytes a writer holds after the writes ws, in order
RECURSIVE Written(_)
Written(ws) ==
    IF ws = <<>> THEN <<>>
    ELSE IF Len(ws) = 1 THEN ws[1]
    ELSE Written(SubSeq(ws, 1, Len(ws) \div 2))
             \o Written(SubSeq(ws, Len(ws) \div 2 + 1, Len(ws)))

\* WriteHistory between RLock and RUnlock: Fprintln writes each item and a
\* newline
WriteHistoryBody(h) == Written([i \in 1..Len(h) |-> h[i] \o <<10>>])

getHistoryByPrefix(h, prefix) == SelectSeq(h, LAMBDA e : HasPrefix(e, prefix))

\* getHistoryByPattern: the matching lines and the offset Index gives in each
getHistoryByPattern(h, pattern) ==
    IF pattern = <<>> THEN [ph |-> <<>>, pos |-> <<>>]
    ELSE LET ph == SelectSeq(h, LAMBDA e : Index(e, pattern) >= 0)
         IN  [ph |-> ph, pos |-> [i \in 1..Len(ph) |-> Index(ph[i], pattern)]]

\* ------------------------------------------------------------ kill ring

\* a step back that copies the previous value over the current node where
\* only the pointer should move
RingCopyPrev(r) == IF r = <<>> THEN r ELSE <<r[Len(r)]>> \o Tail(r)

\* The ring is the sequence of its values read from the current node along
\* Next; nil is the empty sequence.  ring.Next and ring.Prev:
RingNext(r) == IF r = <<>> THEN r ELSE Tail(r) \o <<Head(r)>>
RingPrev(r) == IF r = <<>> THEN r ELSE <<r[Len(r)]>> \o SubSeq(r, 1, Len(r) - 1)

\* whether addToKillRing treats the ring as full
RingFull(r) == Len(r) >= KillRingMax

addToKillRing(r, text, mode) ==
    IF mode = 0
    THEN IF r = <<>> THEN <<text>>
         ELSE IF RingFull(r) THEN <<text>> \o Tail(RingNext(r))
         ELSE <<text>> \o Tail(r) \o <<Head(r)>>
    ELSE LET r1 == IF r = <<>> THEN << <<>> >> ELSE r
         IN  IF mode = 1 THEN <<Head(r1) \o text>> \o Tail(r1)
             ELSE IF mode = 2 THEN <<text \o Head(r1)>> \o Tail(r1)
             ELSE <<text>> \o Tail(r1)

\* ------------------------------------------------------------ refresh

\* stripAnsiColorSequences: every leftmost ESC [^m]* m removed
RECURSIVE stripAnsiColorSequences(_)
stripAnsiColorSequences(s) ==
    IF s = <<>> THEN <<>>
    ELSE IF Head(s) = esc /\ Index(Tail(s), <<109>>) >= 0
    THEN stripAnsiColorSequences(Slice(s, Index(Tail(s), <<109>>) + 2, Len(s)))
    ELSE <<Head(s)>> \o stripAnsiColorSequences(Tail(s))

\* refresh, its last step: start++ past the '{' and end-- before the '}'
refreshMarks(pLen, bLen, pos, start, stop) ==
    [wide |-> TRUE,
     start |-> IF start > 0 THEN start + 1 ELSE start,
     end |-> IF stop < bLen THEN stop - 1 ELSE stop,
     bLen |-> bLen,
     cursor |-> pLen + (pos - start)]

\* refresh, "if start < 0" on the window clamped to the end of the buffer
refreshLeft(pLen, bLen, pos, space, start, stop) ==
    IF start < 0
    THEN refreshMarks(pLen, bLen, pos, 0, space)
    ELSE refreshMarks(pLen, bLen, pos, start, stop)

\* refresh, "if end > bLen" on the window centred on the cursor
refreshRight(pLen, bLen, pos, space, start, stop) ==
    IF stop > bLen
    THEN refreshLeft(pLen, bLen, pos, space, bLen - space, bLen)
    ELSE refreshLeft(pLen, bLen, pos, space, start, stop)

\* refresh, its second branch: the window of space columns around the cursor
refreshWide(pLen, bLen, pos, space) ==
    refreshRight(pLen, bLen, pos, space,
                 pos - GoDiv(space, 2), pos - GoDiv(space, 2) + space)

\* refresh, from the two lengths on
refreshLens(pLen, bLen, pos, cols) ==
    IF pLen + bLen < cols
    THEN [wide |-> FALSE, start |-> 0, end |-> bLen, bLen |-> bLen,
          cursor |-> pLen + pos]
    ELSE refreshWide(pLen, bLen, pos, cols - pLen - 1)

\* refresh: the window [start, end) of the buffer it prints and the column
\* it leaves the cursor in; wide is its second branch
refresh(prompt, buf, pos, cols) ==
    refreshLens(RuneCountInString(stripAnsiColorSequences(prompt)),
                RuneCountInString(buf), pos, cols)

\* a window whose line[start:end] is a valid slice expression
ValidWindow(w) ==
    0 <= w.start /\ w.start <= w.end /\ w.end <= w.bLen

\* line[start:end] in refresh is a valid slice expression
refreshOK(prompt, buf, pos, cols) ==
    ValidWindow(refresh(prompt, buf, pos, cols))

\* ------------------------------------------------------------ inputs

\* the code points the terminal sends besides control codes: the space and
\* the three-byte euro sign
Printable == {32, 8364}

\* the keys of an editing session: moving, typing, killing, yanking,
\* completing, searching, and the keys that end a session
Keys ==
    {RuneKey(c) : c \in {ctrlA, ctrlK, ctrlU, ctrlW, ctrlY, ctrlR, tab, cr,
                         ctrlD} \cup Printable}
        \cup {ActionKey(a) : a \in {left, altY}}

\* the keys of a session that walks the history: typing, the history keys,
\* the search keys, transposing, and the keys that end a session
NavKeys ==
    {RuneKey(c) : c \in {ctrlP, ctrlN, ctrlR, ctrlG, ctrlT, bs, cr, ctrlD}
                        \cup Printable}
        \cup {ActionKey(a) : a \in {up, down, left}}

\* the lines the caller appends to the history: the last one ends in a
\* carriage return
Items == {String(<<8364, 32>>), String(<<8364>>), String(<<8364, 13>>)}

\* the histories the caller may have loaded: both items, in either order
Histories == {<<String(<<8364, 32>>), String(<<8364>>)>>,
              <<String(<<8364>>), String(<<8364, 32>>)>>}

\* the prompt text handed to Prompt: "> "
PromptText == <<62, 32>>

\* the prompt of the reverse-i-search sub-mode around the pattern
SearchPrompt(search) ==
    <<40, 114, 101, 118, 101, 114, 115, 101, 45, 105, 45, 115, 101, 97, 114,
      99, 104, 41, 96>> \o search \o <<39, 58, 32>>

\* the terminal widths getColumns may report
Columns == {80}

\* the completers the caller may have installed: none, or a WordCompleter
Completers == {"nil", "word"}

\* the caller's WordCompleter: splits the line at the cursor and offers the
\* euro and the space
UserWordCompleter(text, p) ==
    LET r == Runes(text)
        q == Min(p, Len(r))
    IN  [head |-> String(Slice(r, 0, q)),
         list |-> <<String(<<8364>>), String(<<32>>)>>,
         tail |-> String(Slice(r, q, Len(r)))]

\* ------------------------------------------------------------ dispatch

\* A dispatch works on the locals of Prompt and the kill ring:
\*   [line, pos, historyEnd, prefixHistory, historyPos, killAction, killRing,
\*    historyAction, out, rf, beep, killed]
\* out is "cont", "accept" (break mainLoop), "eof" or "panic" (a run-time
\* index or slice error); rf says the branch ended in refresh(p, line, pos),
\* beep that it printed the beep, killed the mode it gave addToKillRing.

RemoveAt(l, i) == Slice(l, 0, i) \o Slice(l, i + 1, Len(l))
InsertAt(l, i, v) == Slice(l, 0, i) \o <<v>> \o Slice(l, i, Len(l))

Beep(s) == [s EXCEPT !.beep = TRUE]
Panic(s) == [s EXCEPT !.out = "panic"]
Refreshed(s) == [s EXCEPT !.rf = TRUE]

\* a kill that never coalesces: every kill starts a segment
AlwaysNewSegment(killAction, coalesce) == 0

\* the mode a kill hands to addToKillRing: coalesce after a kill, else new
KillMode(killAction, coalesce) == IF killAction > 0 THEN coalesce ELSE 0

Kill(s, text, coalesce) ==
    [s EXCEPT !.killRing = addToKillRing(@, text, KillMode(s.killAction, coalesce)),
              !.killAction = 2,
              !.killed = KillMode(s.killAction, coalesce)]

\* case ctrlK
KillToEnd(s) ==
    IF s.pos >= Len(s.line) THEN Beep(s)
    ELSE Refreshed([Kill(s, Slice(s.line, s.pos, Len(s.line)), 1)
                      EXCEPT !.line = Slice(s.line, 0, s.pos)])

\* case ctrlU.  With pos > len(line), line[pos:] is a slice error; whether
\* line[:pos] before it already is one depends on the capacity of line
KillToStart(s) ==
    IF s.pos > Len(s.line) THEN Panic(s)
    ELSE Refreshed([Kill(s, Slice(s.line, 0, s.pos), 2)
                      EXCEPT !.line = Slice(s.line, s.pos, Len(s.line)),
                             !.pos = 0])

\* one loop of case ctrlW: moves code points left of the cursor that are
\* (space = TRUE) or are not (space = FALSE) white space into buf
RECURSIVE EraseLeft(_, _, _, _)
EraseLeft(l, p, buf, space) ==
    IF p = 0 \/ IsSpace(l[p]) # space THEN [line |-> l, pos |-> p, buf |-> buf]
    ELSE EraseLeft(RemoveAt(l, p - 1), p - 1, Append(buf, l[p]), space)

Reverse(b) == [i \in 1..Len(b) |-> b[Len(b) + 1 - i]]

\* case ctrlW
KillWord(s) ==
    IF s.pos = 0 THEN Beep(s)
    ELSE IF s.pos > Len(s.line) THEN Panic(s)
    ELSE LET e1 == EraseLeft(s.line, s.pos, <<>>, TRUE)
             e2 == EraseLeft(e1.line, e1.pos, e1.buf, FALSE)
         IN  Refreshed([Kill(s, Reverse(e2.buf), 2)
                          EXCEPT !.line = e2.line, !.pos = e2.pos])

\* a down that shows the newest entry again where it should show historyEnd
HistoryNextNoEnd(s) ==
    IF s.historyPos < Len(s.prefixHistory)
    THEN [s EXCEPT !.historyAction = TRUE,
                   !.historyPos = @ + 1,
                   !.line = Runes(s.prefixHistory[Len(s.prefixHistory)]),
                   !.pos = Len(Runes(s.prefixHistory[Len(s.prefixHistory)])),
                   !.rf = TRUE]
    ELSE Beep([s EXCEPT !.historyAction = TRUE])

\* case ctrlP and case up
HistoryPrev(s) ==
    IF s.historyPos > 0
    THEN LET l == Runes(s.prefixHistory[s.historyPos])
         IN  [s EXCEPT !.historyAction = TRUE,
                       !.historyEnd = IF s.historyPos = Len(s.prefixHistory)
                                      THEN String(s.line) ELSE @,
                       !.historyPos = @ - 1,
                       !.line = l,
                       !.pos = Len(l),
                       !.rf = TRUE]
    ELSE Beep([s EXCEPT !.historyAction = TRUE])

\* case ctrlN and case down
HistoryNext(s) ==
    IF s.historyPos < Len(s.prefixHistory)
    THEN LET hp == s.historyPos + 1
             l == IF hp = Len(s.prefixHistory) THEN Runes(s.historyEnd)
                  ELSE Runes(s.prefixHistory[hp + 1])
         IN  [s EXCEPT !.historyAction = TRUE,
                       !.historyPos = hp,
                       !.line = l,
                       !.pos = Len(l),
                       !.rf = TRUE]
    ELSE Beep([s EXCEPT !.historyAction = TRUE])

\* case ctrlT
Transpose(s) ==
    IF Len(s.line) < 2 \/ s.pos < 1 THEN Beep(s)
    ELSE LET q == IF s.pos = Len(s.line) THEN s.pos - 1 ELSE s.pos
         IN  IF q >= Len(s.line) THEN Panic(s)
             ELSE Refreshed([s EXCEPT !.line = [@ EXCEPT ![q] = s.line[q + 1],
                                                         ![q + 1] = s.line[q]],
                                      !.pos = q + 1])

\* case ctrlH, bs
Backspace(s) ==
    IF s.pos <= 0 THEN Beep(s)
    ELSE IF s.pos > Len(s.line) THEN Panic(s)
    ELSE Refreshed([s EXCEPT !.line = RemoveAt(@, s.pos - 1), !.pos = @ - 1])

\* case ctrlD past the EOF test, and case del
DeleteAt(s) ==
    IF s.pos >= Len(s.line) THEN Beep(s)
    ELSE Refreshed([s EXCEPT !.line = RemoveAt(@, s.pos)])

\* the default case: insert the code point v
InsertRune(s, v, p, cols) ==
    IF s.pos = Len(s.line) /\ Len(p) + Len(s.line) < cols - 1
    THEN [s EXCEPT !.line = Append(@, v), !.pos = @ + 1]
    ELSE IF s.pos > Len(s.line) THEN Panic(s)
    ELSE Refreshed([s EXCEPT !.line = InsertAt(@, s.pos, v), !.pos = @ + 1])

\* the loop of case wordLeft entered with pos > 0; -1 is an index error
RECURSIVE WordLeft(_, _)
WordLeft(l, p) ==
    LET q == p - 1
    IN  IF q = 0 THEN 0
        ELSE IF q > Len(l) THEN -1
        ELSE IF IsSpace(l[q]) THEN q
        ELSE WordLeft(l, q)

\* the loop of case wordRight entered with pos < len(line)
RECURSIVE WordRight(_, _)
WordRight(l, p) ==
    LET q == p + 1
    IN  IF q = Len(l) THEN q
        ELSE IF IsSpace(l[q + 1]) THEN q
        ELSE WordRight(l, q)

\* the inner switch of case rune
DispatchRune(s, v, p, cols) ==
    IF v \in {cr, lf} THEN [s EXCEPT !.out = "accept"]
    ELSE IF v = ctrlA THEN Refreshed([s EXCEPT !.pos = 0])
    ELSE IF v = ctrlE THEN Refreshed([s EXCEPT !.pos = Len(s.line)])
    ELSE IF v = ctrlB
    THEN IF s.pos > 0 THEN Refreshed([s EXCEPT !.pos = @ - 1]) ELSE Beep(s)
    ELSE IF v = ctrlF
    THEN IF s.pos < Len(s.line) THEN Refreshed([s EXCEPT !.pos = @ + 1]) ELSE Beep(s)
    ELSE IF v = ctrlD
    THEN IF s.pos = 0 /\ Len(s.line) = 0 THEN [s EXCEPT !.out = "eof"]
         ELSE DeleteAt(s)
    ELSE IF v = ctrlK THEN KillToEnd(s)
    ELSE IF v = ctrlP THEN HistoryPrev(s)
    ELSE IF v = ctrlN THEN HistoryNext(s)
    ELSE IF v = ctrlT THEN Transpose(s)
    ELSE IF v = ctrlL THEN Refreshed(s)
    ELSE IF v \in {ctrlH, bs} THEN Backspace(s)
    ELSE IF v = ctrlU THEN KillToStart(s)
    ELSE IF v = ctrlW THEN KillWord(s)
    ELSE IF v = esc THEN s
    ELSE IF v \in {tab, ctrlR, ctrlY, ctrlG, ctrlO, ctrlQ, ctrlS, ctrlV, ctrlX,
                   ctrlZ, 0, ctrlC, 28, 29, 30, 31}
    THEN Beep(s)
    ELSE InsertRune(s, v, p, cols)

\* the inner switch of case action, and the refresh after it
DispatchAction(s, a) ==
    Refreshed(
        IF a = del
        THEN IF s.pos >= Len(s.line) THEN Beep(s)
             ELSE [s EXCEPT !.line = RemoveAt(@, s.pos)]
        ELSE IF a = left
        THEN IF s.pos > 0 THEN [s EXCEPT !.pos = @ - 1] ELSE Beep(s)
        ELSE IF a = wordLeft
        THEN IF s.pos > 0
             THEN IF WordLeft(s.line, s.pos) < 0 THEN Panic(s)
                  ELSE [s EXCEPT !.pos = WordLeft(s.line, s.pos)]
             ELSE Beep(s)
        ELSE IF a = right
        THEN IF s.pos < Len(s.line) THEN [s EXCEPT !.pos = @ + 1] ELSE Beep(s)
        ELSE IF a = wordRight
        THEN IF s.pos < Len(s.line)
             THEN [s EXCEPT !.pos = WordRight(s.line, s.pos)]
             ELSE Beep(s)
        ELSE IF a = up THEN HistoryPrev(s)
        ELSE IF a = down THEN HistoryNext(s)
        ELSE IF a = home THEN [s EXCEPT !.pos = 0]
        ELSE IF a = end THEN [s EXCEPT !.pos = Len(s.line)]
        ELSE s)

\* the switch on the type of next
Dispatch(s, k, p, cols) ==
    IF k.t = "rune" THEN DispatchRune(s, k.v, p, cols)
    ELSE IF k.t = "action" THEN DispatchAction(s, k.v)
    ELSE s

\* the end of a main-loop iteration: the prefix history follows the line
\* unless the key was a history key, and the kill latch runs down
EndIteration(s, h) ==
    LET ph == getHistoryByPrefix(h, String(s.line))
        s1 == IF s.historyAction THEN s
              ELSE [s EXCEPT !.prefixHistory = ph, !.historyPos = Len(ph)]
    IN  [s1 EXCEPT !.killAction = IF @ > 0 THEN @ - 1 ELSE @]

\* ------------------------------------------------------------ state

VARIABLES
    history,        \* commonState.history: strings, oldest first
    killRing,       \* commonState.killRing
    completer,      \* commonState.completer
    columns,        \* commonState.columns
    historyMutex,   \* commonState.historyMutex
    thr,            \* the other goroutines inside a history call
    pc,             \* where the goroutine calling Prompt is
    line, pos, historyEnd, prefixHistory, historyPos, killAction,
    beep,           \* the last step printed the beep
    killed,         \* the mode the last step gave addToKillRing, or NoKill
    frame,          \* the locals of the sub-mode the session is inside
    ret,            \* what the last call of the caller's goroutine returned
    written,        \* what WriteHistory last wrote to its writer
    calls           \* history calls made so far

vars == <<history, killRing, completer, columns, historyMutex, thr, pc, line,
          pos, historyEnd, prefixHistory, historyPos, killAction, beep, killed,
          frame, ret, written, calls>>

\* the goroutine that calls Prompt
Main == "main"

\* Prompt is blocked in a readNext
Active == {"main", "tab", "yank", "rsearch"}

NoFrame == [mode |-> "none"]
\* no call of addToKillRing
NoKill == -1
NoRet == [op |-> "none"]

\* what the model's bounds let a step reach
Bounded(l, r) ==
    /\ Len(l) <= MaxLen
    /\ Len(r) <= MaxRing
    /\ \A i \in 1..Len(r) : Len(r[i]) <= MaxLen

\* ------------------------------------------------------------ the lock

FreeMutex == [readers |-> {}, w |-> "none", wq |-> {}, blocked |-> {}]

\* RLock by g: shared at once unless a writer has announced itself
RLock(m, g) ==
    IF m.w = "none" THEN [m EXCEPT !.readers = @ \cup {g}]
    ELSE [m EXCEPT !.blocked = @ \cup {g}]

RUnlock(m, g) == [m EXCEPT !.readers = @ \ {g}]

\* Lock by g: g announces itself, or queues behind the writer that has
Lock(m, g) ==
    IF m.w = "none" THEN [m EXCEPT !.w = g] ELSE [m EXCEPT !.wq = @ \cup {g}]

\* g has the write lock: it has announced itself and the readers have left
HasLock(m, g) == m.w = g /\ m.readers = {}

\* Unlock: the readers that arrived meanwhile get the lock
Unlock(m) == [m EXCEPT !.w = "none", !.readers = m.blocked, !.blocked = {}]

\* a writer queued behind another gets its turn once that one has unlocked
NextWriter(m, g) == [m EXCEPT !.w = g, !.wq = @ \ {g}]

\* the lock call of g has returned
Granted(m, g) == g \in m.readers \/ HasLock(m, g)

\* the deferred unlock of g: Unlock after Lock, RUnlock after RLock
Release(m, g) == IF m.w = g THEN Unlock(m) ELSE RUnlock(m, g)

\* a history call that takes the read lock where the code takes the write lock
SharedAcquire(m, g) == RLock(m, g)

\* a history call that takes the write lock where the code takes the read lock
ExclusiveAcquire(m, g) == Lock(m, g)

\* the first statement of ReadHistory, of AppendHistory and of WriteHistory
ReadHistoryAcquire(m, g) == Lock(m, g)
AppendHistoryAcquire(m, g) == Lock(m, g)
WriteHistoryAcquire(m, g) == RLock(m, g)

\* the lock call of the history call op by g
Acquire(m, g, op) ==
    IF op = "WriteHistory" THEN WriteHistoryAcquire(m, g)
    ELSE IF op = "AppendHistory" THEN AppendHistoryAcquire(m, g)
    ELSE ReadHistoryAcquire(m, g)

\* ------------------------------------------------------------ the session

Locals ==
    [line |-> line, pos |-> pos, historyEnd |-> historyEnd,
     prefixHistory |-> prefixHistory, historyPos |-> historyPos,
     killAction |-> killAction, killRing |-> killRing,
     historyAction |-> FALSE, out |-> "cont", rf |-> FALSE,
     beep |-> FALSE, killed |-> NoKill]

\* the locals of Prompt are gone once it has returned
Discard ==
    /\ line' = <<>>
    /\ pos' = 0
    /\ historyEnd' = <<>>
    /\ prefixHistory' = <<>>
    /\ historyPos' = 0
    /\ killAction' = 0
    /\ beep' = FALSE
    /\ killed' = NoKill
    /\ frame' = NoFrame

\* Prompt returns: the deferred RUnlock runs
Return(value, err) ==
    /\ pc' = "done"
    /\ ret' = [op |-> "Prompt", line |-> value, err |-> err]
    /\ historyMutex' = RUnlock(historyMutex, Main)
    /\ Discard
    /\ UNCHANGED killRing

\* a run-time panic unwinds Prompt
Crash ==
    /\ pc' = "panic"
    /\ ret' = [op |-> "Prompt", line |-> <<>>, err |-> "panic"]
    /\ historyMutex' = RUnlock(historyMutex, Main)
    /\ Discard
    /\ UNCHANGED killRing

\* the dispatch switch on next with line l and cursor p, and what follows it
DispatchStep(l, p, k) ==
    LET d == Dispatch([Locals EXCEPT !.line = l, !.pos = p], k, PromptText, columns)
        e == EndIteration(d, history)
    IN  IF d.out = "panic" \/ (d.rf /\ ~refreshOK(PromptText, String(d.line), d.pos, columns))
        THEN Crash
        ELSE IF d.out = "accept" THEN Return(String(d.line), "nil")
        ELSE IF d.out = "eof" THEN Return(<<>>, "EOF")
        ELSE /\ pc' = "main"
             /\ line' = e.line
             /\ pos' = e.pos
             /\ historyEnd' = e.historyEnd
             /\ prefixHistory' = e.prefixHistory
             /\ historyPos' = e.historyPos
             /\ killAction' = e.killAction
             /\ killRing' = e.killRing
             /\ beep' = d.beep
             /\ killed' = d.killed
             /\ frame' = NoFrame
             /\ UNCHANGED <<ret, historyMutex>>

\* the hook for ctrlR: reverseISearch starts, or the key is dispatched
SearchHook(l, p, k) ==
    IF IsRune(k, ctrlR)
    THEN IF ~refreshOK(SearchPrompt(<<>>), String(l), p, columns)
         THEN Crash
         ELSE /\ pc' = "rsearch"
              /\ line' = l
              /\ pos' = p
              /\ frame' = [mode |-> "rsearch", line |-> <<>>, pos |-> 0,
                           foundLine |-> <<>>, foundPos |-> 0,
                           history |-> getHistoryByPattern(history, <<>>).ph,
                           positions |-> getHistoryByPattern(history, <<>>).pos,
                           historyPos |-> Len(getHistoryByPattern(history, <<>>).ph) - 1]
              /\ beep' = FALSE
              /\ killed' = NoKill
              /\ UNCHANGED <<historyEnd, prefixHistory, historyPos, killAction,
                             killRing, ret, historyMutex>>
    ELSE DispatchStep(l, p, k)

\* the loop for ctrlY: yank starts if the ring is not nil
YankHook(l, p, k) ==
    IF IsRune(k, ctrlY) /\ killRing # <<>>
    THEN IF p > Len(l)
            \/ ~refreshOK(PromptText, String(Slice(l, 0, p) \o Head(killRing) \o Slice(l, p, Len(l))),
                          p + Len(Head(killRing)), columns)
         THEN Crash
         ELSE /\ pc' = "yank"
              /\ line' = l
              /\ pos' = p
              /\ frame' = [mode |-> "yank", lineStart |-> Slice(l, 0, p),
                           lineEnd |-> Slice(l, p, Len(l))]
              /\ beep' = FALSE
              /\ killed' = NoKill
              /\ UNCHANGED <<historyEnd, prefixHistory, historyPos, killAction,
                             killRing, ret, historyMutex>>
    ELSE SearchHook(l, p, k)

\* tabComplete has returned l, p and k: the refresh, then the other hooks
AfterTab(l, p, k) ==
    IF ~refreshOK(PromptText, String(l), p, columns) THEN Crash
    ELSE YankHook(l, p, k)

\* a completion that always shows the first candidate
PickFirst(f) == f.list[1]

\* a completed line that loses what followed the cursor
TabLineNoTail(f) == f.head \o f.list[f.listEntry + 1]

\* the candidate tabComplete shows, the line with it and the cursor after it
Pick(f) == f.list[f.listEntry + 1]
TabLine(f) == f.head \o Pick(f) \o f.tail
TabPos(f) == RuneCountInString(f.head) + RuneCountInString(Pick(f))
TabShown(f) == refreshOK(PromptText, TabLine(f), TabPos(f), columns)

\* the hook for tab: tabComplete starts if the completer has candidates
TabHook(l, p, k) ==
    IF IsRune(k, tab)
    THEN IF completer = "nil" THEN AfterTab(l, p, k)
         ELSE LET c == UserWordCompleter(String(l), p)
              IN  IF Len(c.list) <= 0 THEN AfterTab(l, p, k)
                  ELSE IF ~TabShown([head |-> c.head, list |-> c.list,
                                     tail |-> c.tail, listEntry |-> 0])
                  THEN Crash
                  ELSE /\ pc' = "tab"
                       /\ line' = l
                       /\ pos' = p
                       /\ frame' = [mode |-> "tab", head |-> c.head, list |-> c.list,
                                    tail |-> c.tail, listEntry |-> 0]
                       /\ beep' = FALSE
                       /\ killed' = NoKill
                       /\ UNCHANGED <<historyEnd, prefixHistory, historyPos,
                                      killAction, killRing, ret, historyMutex>>
    ELSE YankHook(l, p, k)

\* a cursor that stays where the yank started
YankPosBefore(f, r) == Len(f.lineStart)

\* the line yank shows and the cursor after the yanked text
YankLine(f, r) == f.lineStart \o Head(r) \o f.lineEnd
YankPos(f, r) == Len(f.lineStart) + Len(Head(r))

\* what every step of the session leaves alone
SessionFrame == UNCHANGED <<history, completer, columns, thr, written, calls>>

\* Prompt past its RLock: the locals; columns is what getColumns reports
EnterPrompt ==
    /\ \E c \in Columns : columns' = c
    /\ pc' = "main"
    /\ line' = <<>>
    /\ pos' = 0
    /\ historyEnd' = <<>>
    /\ prefixHistory' = getHistoryByPrefix(history, <<>>)
    /\ historyPos' = Len(getHistoryByPrefix(history, <<>>))
    /\ killAction' = 0
    /\ beep' = FALSE
    /\ killed' = NoKill
    /\ frame' = NoFrame
    /\ ret' = NoRet

\* Prompt is called: RLock returns at once, or blocks behind a writer
StartPrompt ==
    /\ pc \in {"idle", "done"}
    /\ historyMutex' = RLock(historyMutex, Main)
    /\ IF Main \in historyMutex'.readers
       THEN EnterPrompt
       ELSE /\ pc' = "rlock"
            /\ ret' = NoRet
            /\ UNCHANGED <<columns, line, pos, historyEnd, prefixHistory,
                           historyPos, killAction, beep, killed, frame>>
    /\ UNCHANGED <<history, killRing, completer, thr, written, calls>>

\* the RLock of Prompt returns once the writer has unlocked
ResumePrompt ==
    /\ pc = "rlock"
    /\ Main \in historyMutex.readers
    /\ EnterPrompt
    /\ UNCHANGED <<history, killRing, completer, thr, written, calls, historyMutex>>

\* readNext in the main loop returns k
ReadMain(k) ==
    /\ pc = "main"
    /\ TabHook(line, pos, k)
    /\ Bounded(line', killRing')
    /\ SessionFrame

\* readNext in tabComplete returns k
ReadTab(k) ==
    /\ pc = "tab"
    /\ IF IsRune(k, tab) \/ IsAction(k, shiftTab)
       THEN LET n == Len(frame.list)
                e == IF IsRune(k, tab)
                     THEN IF frame.listEntry < n - 1 THEN frame.listEntry + 1 ELSE 0
                     ELSE IF frame.listEntry > 0 THEN frame.listEntry - 1 ELSE n - 1
                f == [frame EXCEPT !.listEntry = e]
            IN  IF ~TabShown(f) THEN Crash
                ELSE /\ frame' = f
                     /\ beep' = FALSE
                     /\ killed' = NoKill
                     /\ UNCHANGED <<pc, line, pos, historyEnd, prefixHistory,
                                    historyPos, killAction, killRing, ret,
                                    historyMutex>>
       ELSE IF IsRune(k, esc) THEN AfterTab(line, pos, RuneKey(esc))
       ELSE AfterTab(Runes(TabLine(frame)), TabPos(frame), k)
    /\ Bounded(line', killRing')
    /\ SessionFrame

\* readNext in yank returns k
ReadYank(k) ==
    /\ pc = "yank"
    /\ IF IsAction(k, altY)
       THEN IF ~refreshOK(PromptText, String(YankLine(frame, RingPrev(killRing))),
                          YankPos(frame, RingPrev(killRing)), columns)
            THEN Crash
            ELSE /\ killRing' = RingPrev(killRing)
                 /\ beep' = FALSE
                 /\ killed' = NoKill
                 /\ UNCHANGED <<pc, line, pos, historyEnd, prefixHistory, historyPos,
                                killAction, ret, historyMutex, frame>>
       ELSE YankHook(YankLine(frame, killRing), YankPos(frame, killRing), k)
    /\ Bounded(line', killRing')
    /\ SessionFrame

\* the pattern of reverseISearch changed to pat: the newest match is found.
\* same is TRUE where the code assigns the new lists to shadowing variables
Searched(f, pat, same) ==
    LET m == getHistoryByPattern(history, String(pat))
        n == Len(m.ph)
    IN  [f EXCEPT !.line = pat,
                  !.pos = Len(pat),
                  !.history = IF same THEN @ ELSE m.ph,
                  !.positions = IF same THEN @ ELSE m.pos,
                  !.historyPos = n - 1,
                  !.foundLine = IF n > 0 THEN m.ph[n] ELSE <<>>,
                  !.foundPos = IF n > 0 THEN m.pos[n] ELSE 0]

\* one key of reverseISearch that stays in the sub-mode
SearchKey(f, v) ==
    IF v = ctrlR
    THEN IF f.historyPos > 0 /\ f.historyPos < Len(f.history)
         THEN [f EXCEPT !.historyPos = @ - 1,
                        !.foundLine = f.history[f.historyPos],
                        !.foundPos = f.positions[f.historyPos]]
         ELSE f
    ELSE IF v = ctrlS
    THEN IF f.historyPos < Len(f.history) - 1 /\ f.historyPos >= 0
         THEN [f EXCEPT !.historyPos = @ + 1,
                        !.foundLine = f.history[f.historyPos + 2],
                        !.foundPos = f.positions[f.historyPos + 2]]
         ELSE f
    ELSE IF v \in {ctrlH, bs}
    THEN IF f.pos <= 0 THEN f
         ELSE Searched(f, RemoveAt(f.line, f.pos - 1), TRUE)
    ELSE Searched(f, InsertAt(f.line, f.pos, v), FALSE)

\* the key v of reverseISearch only beeps
SearchBeeps(f, v) ==
    \/ v = ctrlR /\ ~(f.historyPos > 0 /\ f.historyPos < Len(f.history))
    \/ v = ctrlS /\ ~(f.historyPos < Len(f.history) - 1 /\ f.historyPos >= 0)
    \/ v \in {ctrlH, bs} /\ f.pos <= 0

\* the runes that end reverseISearch
SearchEnds(v) == v \in (0..31) \ {ctrlR, ctrlS, ctrlH}

\* reverseISearch has returned l, p and k: the refresh, then the dispatch
AfterSearch(l, p, k) ==
    IF ~refreshOK(PromptText, String(l), p, columns) THEN Crash
    ELSE DispatchStep(l, p, k)

\* readNext in reverseISearch returns k
ReadSearch(k) ==
    /\ pc = "rsearch"
    /\ IF k.t = "rune" /\ k.v = ctrlG THEN AfterSearch(line, pos, IntKey(esc))
       ELSE IF k.t = "action" \/ SearchEnds(k.v)
       THEN AfterSearch(Runes(frame.foundLine), frame.foundPos, k)
       ELSE LET f == SearchKey(frame, k.v)
            IN  IF ~refreshOK(SearchPrompt(String(f.line)), f.foundLine, f.foundPos, columns)
                THEN Crash
                ELSE /\ frame' = f
                     /\ Len(f.line) <= MaxPat
                     /\ beep' = SearchBeeps(frame, k.v)
                     /\ killed' = NoKill
                     /\ UNCHANGED <<pc, line, pos, historyEnd, prefixHistory,
                                    historyPos, killAction, killRing, ret,
                                    historyMutex>>
    /\ Bounded(line', killRing')
    /\ SessionFrame

\* readNext fails, in the main loop or in a sub-mode: Prompt returns the error
ReadError ==
    /\ pc \in Active
    /\ Return(<<>>, "io")
    /\ SessionFrame

\* ------------------------------------------------------------ history calls

\* the histories files hold: two equal lines, a CR LF line and a last line
\* without newline, a line that is not UTF-8, the empty file
Files ==
    {String(<<8364, 10, 8364, 10>>), String(<<8364, 32, 13, 10, 8364>>),
     <<255, 10>>, <<>>}

\* the history calls a caller makes
HistoryCalls ==
    {[op |-> "AppendHistory", arg |-> i] : i \in Items}
        \cup {[op |-> "ReadHistory", arg |-> f] : f \in Files}
        \cup {[op |-> "WriteHistory", arg |-> <<>>]}

NoCall == [op |-> "none", arg |-> <<>>]

\* the history after the call c on the history h
CallHistory(h, c) ==
    IF c.op = "AppendHistory" THEN AppendHistoryBody(h, c.arg)
    ELSE IF c.op = "ReadHistory" THEN ReadHistoryBody(h, c.arg, 0).history
    ELSE h

\* what the call c on the history h returns
CallResult(h, c) ==
    IF c.op = "AppendHistory" THEN [op |-> c.op]
    ELSE IF c.op = "ReadHistory"
    THEN [op |-> c.op, num |-> ReadHistoryBody(h, c.arg, 0).num,
          err |-> ReadHistoryBody(h, c.arg, 0).err]
    ELSE [op |-> c.op, num |-> Len(h), err |-> "nil"]

\* what the writer of WriteHistory holds after the call c
CallWritten(h, c, w) == IF c.op = "WriteHistory" THEN WriteHistoryBody(h) ELSE w

\* AppendHistory, ReadHistory or WriteHistory called by the goroutine that
\* calls Prompt, between sessions, with no other goroutine: the lock is free
\* before and after
HistoryCall(c) ==
    /\ pc \in {"idle", "done"}
    /\ calls < MaxCalls
    /\ Granted(Acquire(historyMutex, Main, c.op), Main)
    /\ history' = CallHistory(history, c)
    /\ written' = CallWritten(history, c, written)
    /\ ret' = CallResult(history, c)
    /\ calls' = calls + 1
    /\ UNCHANGED <<killRing, completer, columns, historyMutex, thr, pc, line, pos,
                   historyEnd, prefixHistory, historyPos, killAction, beep, killed,
                   frame>>

\* the goroutines besides the one that calls Prompt
Threads == {"g1", "g2"}

\* goroutine g calls c: its lock call returns or blocks
GoCall(g, c) ==
    /\ thr[g] = NoCall
    /\ calls < MaxCalls
    /\ thr' = [thr EXCEPT ![g] = c]
    /\ historyMutex' = Acquire(historyMutex, g, c.op)
    /\ calls' = calls + 1
    /\ UNCHANGED <<history, killRing, completer, columns, pc, line, pos,
                   historyEnd, prefixHistory, historyPos, killAction, beep, killed,
                   frame, ret, written>>

\* the Lock of goroutine g, queued behind another writer, gets its turn
GoNextWriter(g) ==
    /\ g \in historyMutex.wq
    /\ historyMutex.w = "none"
    /\ historyMutex' = NextWriter(historyMutex, g)
    /\ UNCHANGED <<history, killRing, completer, columns, thr, pc, line, pos,
                   historyEnd, prefixHistory, historyPos, killAction, beep, killed,
                   frame, ret, written, calls>>

\* the lock call of goroutine g has returned: the body of its history call
\* and the deferred unlock
GoReturn(g) ==
    /\ thr[g] # NoCall
    /\ Granted(historyMutex, g)
    /\ history' = CallHistory(history, thr[g])
    /\ written' = CallWritten(history, thr[g], written)
    /\ historyMutex' = Release(historyMutex, g)
    /\ thr' = [thr EXCEPT ![g] = NoCall]
    /\ UNCHANGED <<killRing, completer, columns, pc, line, pos, historyEnd,
                   prefixHistory, historyPos, killAction, beep, killed, frame,
                   ret, calls>>

\* ------------------------------------------------------------ specification

\* the state after construction, with the history h already loaded, the
\* kill ring r left by earlier sessions, the completer c installed and the
\* other goroutines G started
InitWith(h, r, c, G) ==
    /\ history = h
    /\ killRing = r
    /\ completer = c
    /\ columns = 0
    /\ historyMutex = FreeMutex
    /\ thr = [g \in G |-> NoCall]
    /\ pc = "idle"
    /\ line = <<>>
    /\ pos = 0
    /\ historyEnd = <<>>
    /\ prefixHistory = <<>>
    /\ historyPos = 0
    /\ killAction = 0
    /\ beep = FALSE
    /\ killed = NoKill
    /\ frame = NoFrame
    /\ ret = NoRet
    /\ written = <<>>
    /\ calls = 0

\* A new editor: no history yet, the kill ring nil; its user edits, kills,
\* yanks, completes and searches.
Init == \E c \in Completers : InitWith(<<>>, <<>>, c, {})

Next ==
    \/ StartPrompt
    \/ \E k \in Keys : ReadMain(k)
    \/ \E k \in Keys : ReadTab(k)
    \/ \E k \in Keys : ReadYank(k)
    \/ \E k \in Keys : ReadSearch(k)
    \/ ReadError

Spec == Init /\ [][Next]_vars

\* An editor with a history loaded and no completer, whose user walks and
\* searches the history.
InitNav == \E h \in Histories : InitWith(h, <<>>, "nil", {})

NextNav ==
    \/ StartPrompt
    \/ \E k \in NavKeys : ReadMain(k)
    \/ \E k \in NavKeys : ReadSearch(k)
    \/ ReadError

SpecNav == InitNav /\ [][NextNav]_vars

\* a history one entry short of HistoryLimit, as AppendHistory builds it
NearFull == [i \in 1..(HistoryLimit - 1) |-> IF i % 2 = 1 THEN String(<<8364>>)
                                                        ELSE String(<<8364, 32>>)]

\* A caller that only loads, extends and saves the history, from an empty
\* one or from one that has grown to the limit.
InitHist == \E h \in {<<>>, NearFull} : InitWith(h, <<>>, "nil", {})

NextHist == \E c \in HistoryCalls : HistoryCall(c)

SpecHist == InitHist /\ [][NextHist]_vars

\* the keys of the sessions that run beside other goroutines
ConcKeys == {RuneKey(8364), RuneKey(cr), ActionKey(up)}

\* Sessions of Prompt while other goroutines call the history functions.
InitConc == InitWith(<<>>, <<>>, "nil", Threads)

NextConc ==
    \/ StartPrompt
    \/ ResumePrompt
    \/ \E k \in ConcKeys : ReadMain(k)
    \/ \E g \in Threads, c \in HistoryCalls : GoCall(g, c)
    \/ \E g \in Threads : GoNextWriter(g)
    \/ \E g \in Threads : GoReturn(g)

SpecConc == InitConc /\ [][NextConc]_vars

\* the keys of a session that goes through the sub-modes: completing,
\* yanking, searching, the keys that cancel and the keys that commit
SubKeys ==
    {RuneKey(c) : c \in {tab, esc, ctrlY, ctrlR, ctrlS, ctrlG, bs, cr, lf}
                        \cup Printable}
        \cup {ActionKey(a) : a \in {shiftTab, altY, left}}

\* An editor with a history loaded, two segments left in the kill ring by
\* earlier sessions and a WordCompleter: its user completes, yanks and
\* searches.
InitSub ==
    \E h \in Histories : InitWith(h, << <<8364>>, <<32>> >>, "word", {})

NextSub ==
    \/ StartPrompt
    \/ \E k \in SubKeys : ReadMain(k)
    \/ \E k \in SubKeys : ReadTab(k)
    \/ \E k \in SubKeys : ReadYank(k)
    \/ \E k \in SubKeys : ReadSearch(k)
    \/ ReadError

SpecSub == InitSub /\ [][NextSub]_vars

\* the text of the n-th kill of a user who kills one code point at a time,
\* each a different one: "!" first, then along the ASCII table
Segment(n) == <<32 + n>>

\* the number of the kill that made the segment seg
Age(seg) == seg[1] - 32

\* the kill ring after the first n of these kills, none following another:
\* each kill links its node behind the current one and steps onto it, so
\* the newest segment is current and Next leads from it to the oldest one
\* and on in the order of the kills
Killed(n) ==
    IF n = 0 THEN <<>> ELSE <<Segment(n)>> \o [i \in 1..(n - 1) |-> Segment(i)]

\* the number of the newest segment of the ring r
Newest(r) == CHOOSE n \in {Age(r[i]) : i \in 1..Len(r)} :
                 \A i \in 1..Len(r) : Age(r[i]) <= n

\* the least recently created segment of the ring r
Oldest(r) == CHOOSE seg \in {r[i] : i \in 1..Len(r)} :
                 \A i \in 1..Len(r) : Age(seg) <= Age(r[i])

\* addToKillRing(text, 0) for the next kill of that user
AddToKillRing ==
    /\ Newest(killRing) < KillRingMax + MaxFresh
    /\ killRing' = addToKillRing(killRing, Segment(Newest(killRing) + 1), 0)
    /\ UNCHANGED <<history, completer, columns, historyMutex, thr, pc, line, pos,
                   historyEnd, prefixHistory, historyPos, killAction, beep, killed,
                   frame, ret, written, calls>>

\* the ALT-Y case of yank
YankAltY ==
    /\ killRing' = RingPrev(killRing)
    /\ UNCHANGED <<history, completer, columns, historyMutex, thr, pc, line, pos,
                   historyEnd, prefixHistory, historyPos, killAction, beep, killed,
                   frame, ret, written, calls>>

\* The kill ring on its own, from the ring KillRingMax kills have filled:
\* further kills and ALT-Y rotations in any order.
InitRing == InitWith(<<>>, Killed(KillRingMax), "nil", {})

NextRing == AddToKillRing \/ YankAltY

SpecRing == InitRing /\ [][NextRing]_vars

\* the prompts refresh is called with: none, ">", "> " and a ">" inside an
\* ANSI colour sequence
Prompts == {<<>>, <<62>>, <<62, 32>>, <<esc, 91, 51, 49, 109, 62>>}

\* s.refresh(p, string(line), pos) on a terminal columns wide: the window it
\* prints, or the run-time panic of line[start:end]
Refresh(p) ==
    /\ pc = "idle"
    /\ pc' = IF refreshOK(p, String(line), pos, columns) THEN "done" ELSE "panic"
    /\ ret' = [op |-> "refresh", prompt |-> p,
               window |-> refresh(p, String(line), pos, columns)]
    /\ UNCHANGED <<history, killRing, completer, columns, historyMutex, thr,
                   line, pos, historyEnd, prefixHistory, historyPos, killAction,
                   beep, killed, frame, written, calls>>

\* refresh on its own: any terminal width from 1 to MaxCols, any buffer of
\* up to MaxBuf code points, the cursor anywhere in it
InitRefresh ==
    /\ columns \in 1..MaxCols
    /\ \E n \in 0..MaxBuf : line = [i \in 1..n |-> 8364]
    /\ pos \in 0..Len(line)
    /\ history = <<>>
    /\ killRing = <<>>
    /\ completer = "nil"
    /\ historyMutex = FreeMutex
    /\ thr = << >>
    /\ pc = "idle"
    /\ historyEnd = <<>>
    /\ prefixHistory = <<>>
    /\ historyPos = 0
    /\ killAction = 0
    /\ beep = FALSE
    /\ killed = NoKill
    /\ frame = NoFrame
    /\ ret = NoRet
    /\ written = <<>>
    /\ calls = 0

NextRefresh == \E p \in Prompts : Refresh(p)

SpecRefresh == InitRefresh /\ [][NextRefresh]_vars

\* ------------------------------------------------------------ properties


\* one main-loop iteration on the locals s, the terminal cols wide, over the
\* history h, for a key k that no hook takes
Iterate(s, k, cols, h) ==
    EndIteration(Dispatch([s EXCEPT !.historyAction = FALSE, !.out = "cont",
                                    !.rf = FALSE, !.beep = FALSE,
                                    !.killed = NoKill],
                          k, PromptText, cols), h)

\* n iterations that each read the key k
RECURSIVE Press(_, _, _, _, _)
Press(s, k, n, cols, h) ==
    IF n = 0 THEN s ELSE Press(Iterate(s, k, cols, h), k, n - 1, cols, h)

\* the keys that kill text
KillKeys == {RuneKey(c) : c \in {ctrlK, ctrlU, ctrlW}}

\* the line and cursor the next dispatch works on: those of the main loop,
\* or those the sub-mode the session is inside hands back with its key
Handed ==
    IF pc = "tab"
    THEN [Locals EXCEPT !.line = Runes(TabLine(frame)), !.pos = TabPos(frame)]
    ELSE IF pc = "yank"
    THEN [Locals EXCEPT !.line = YankLine(frame, killRing),
                        !.pos = YankPos(frame, killRing)]
    ELSE IF pc = "rsearch"
    THEN [Locals EXCEPT !.line = Runes(frame.foundLine), !.pos = frame.foundPos]
    ELSE Locals

\* the iterations that dispatch the keys ks one after the other, as long as
\* each of them kills; out is "norun" if one does not
RECURSIVE KillRun(_, _)
KillRun(s, ks) ==
    IF ks = <<>> THEN s
    ELSE LET t == Iterate(s, ks[1], columns, history)
         IN  IF t.killed = NoKill \/ t.out # "cont"
             THEN [t EXCEPT !.out = "norun"]
             ELSE KillRun(t, Tail(ks))

\* C1: at the start and end of every main-loop iteration the cursor is
\* inside the buffer: 0 <= pos <= the number of code points of the line.
C1_CursorInBuffer == pc = "main" => (0 <= pos /\ pos <= Len(line))

\* C2: the history holds at most HistoryLimit entries and no two adjacent
\* entries are equal, whatever AppendHistory and ReadHistory calls were made.
C2_HistoryBoundedNoAdjacentEqual ==
    /\ Len(history) <= HistoryLimit
    /\ \A i \in 1..(Len(history) - 1) : history[i] # history[i + 1]

\* C3: the kill ring holds at most KillRingMax segments and none of them is
\* empty, wherever the cursor was when a kill key was pressed.
C3_KillRingBoundedNonEmpty ==
    /\ Len(killRing) <= KillRingMax
    /\ \A i \in 1..Len(killRing) : killRing[i] # <<>>

\* C4: a kill key dispatched by the main loop in the iteration right after
\* one that killed starts no segment: ctrlK appends the text right of the
\* cursor to the current segment, ctrlU and ctrlW put the text they remove
\* left of the cursor in front of it, and the other segments stay.
C4_KillCoalesces ==
    [][(pc = "main" /\ pc' = "main" /\ killed # NoKill /\ killed' # NoKill)
          => /\ killed' \in {1, 2}
             /\ Len(killRing') = Len(killRing)
             /\ Tail(killRing') = Tail(killRing)
             /\ killed' = 1
                  => Head(killRing') = Head(killRing) \o Slice(line, pos, Len(line))
             /\ killed' = 2
                  => Head(killRing') = Slice(line, pos', pos) \o Head(killRing)]_vars

\* C4, reached: ctrlK then ctrlU with the cursor inside "euro, space" left
\* one segment that is the whole line, put together by a prepend.
C4_Witness ==
    /\ pc = "main"
    /\ killed = 2
    /\ line = <<>>
    /\ killRing = << <<8364, 32>> >>

\* C5: a kill that follows a key that did not kill, whether the main loop
\* dispatched that key or a sub-mode consumed it, starts a new segment.
C5_KillAfterOtherKeyStartsSegment ==
    [][(killed = NoKill /\ killed' # NoKill) => killed' = 0]_vars

\* C6 as stated: a step that does not kill leaves the kill ring, its
\* segments, their order and its current pointer, as it was.
C6_RingUnchangedWithoutKill ==
    [][killed' = NoKill => killRing' = killRing]_vars

\* C6, amended: a step that does not kill leaves the segments of the ring and
\* their circular order as they were, and leaves the current pointer where it
\* was unless the step is altY inside yank, which moves it back by one.
C6_RingKeptPointerMovesOnAltY ==
    [][killed' = NoKill
          => \/ killRing' = killRing
             \/ /\ pc = "yank"
                /\ pc' = "yank"
                /\ Len(killRing') = Len(killRing)
                /\ \A i \in 1..Len(killRing) :
                      killRing'[(i % Len(killRing)) + 1] = killRing[i]]_vars

\* C6, reached: yank shows a ring of two different segments, where altY
\* moves the pointer to the other one.
C6_Witness ==
    /\ pc = "yank"
    /\ Len(killRing) = 2
    /\ killRing[1] # killRing[2]

\* C7: from an in-progress buffer with historyPos = len(prefixHistory), n
\* presses of up (or ctrlP) and then n presses of down (or ctrlN), beeps
\* included, leave the line equal to the in-progress buffer.
C7_UpDownRestores ==
    (pc = "main" /\ historyPos = Len(prefixHistory))
        => \A n \in 1..MaxPress :
             \A ku \in {RuneKey(ctrlP), ActionKey(up)} :
               \A kd \in {RuneKey(ctrlN), ActionKey(down)} :
                 Press(Press(Locals, ku, n, columns, history),
                       kd, n, columns, history).line = line

\* C7, reached: the in-progress buffer "euro", which both history entries
\* start with, is back after up and down: historyEnd holds it.
C7_Witness ==
    /\ pc = "main"
    /\ line = <<8364>>
    /\ historyEnd = String(line)
    /\ Len(prefixHistory) = 2
    /\ historyPos = Len(prefixHistory)

\* C8: an active session holds the read lock, and no step taken while the
\* session is active, by any goroutine, changes the history.
C8_HistoryFixedDuringSession ==
    /\ [](pc \in Active => Main \in historyMutex.readers)
    /\ [][(pc \in Active /\ pc' \in Active) => history' = history]_vars

\* C8, reached: during a session another goroutine has called AppendHistory
\* and waits in its Lock.
C8_Witness ==
    /\ pc \in Active
    /\ \E g \in Threads :
          /\ thr[g].op = "AppendHistory"
          /\ historyMutex.w = g
          /\ ~Granted(historyMutex, g)

\* C9 as stated: a WriteHistory call of another goroutine during an active
\* session has the read lock, whatever the other callers do.
C9_WriteHistoryNeverWaits ==
    \A g \in Threads :
        (thr[g].op = "WriteHistory" /\ pc \in Active) => Granted(historyMutex, g)

\* C9, amended: a WriteHistory call of another goroutine during an active
\* session has the read lock and can complete, provided no AppendHistory or
\* ReadHistory call is waiting for the write lock.
C9_WriteHistoryParallelUnlessWriterWaits ==
    \A g \in Threads :
        (/\ thr[g].op = "WriteHistory"
         /\ pc \in Active
         /\ \A u \in Threads : thr[u].op \notin {"AppendHistory", "ReadHistory"})
            => (g \in historyMutex.readers /\ Granted(historyMutex, g))

\* C9, reached: two goroutines are inside WriteHistory, with the read lock,
\* beside an active session.
C9_Witness ==
    /\ pc \in Active
    /\ \A g \in Threads :
          thr[g].op = "WriteHistory" /\ g \in historyMutex.readers

\* C10: a session ends only by Prompt returning the accepted line, the EOF
\* error or the error of a failed read.
C10_SessionEndsThreeWays ==
    [][(pc \in Active /\ pc' \notin Active)
          => (pc' = "done" /\ ret'.err \in {"nil", "EOF", "io"})]_vars

\* C11: a history of at most HistoryLimit entries (here at most MaxTrip),
\* each valid UTF-8 without a newline and shorter than the reader's buffer,
\* written by WriteHistory and read by ReadHistory into an empty history,
\* comes back entry for entry, and both calls report its length and no error.
C11_WriteReadRoundTrip ==
    (/\ Len(history) <= Min(MaxTrip, HistoryLimit)
     /\ \A i \in 1..Len(history) :
           /\ Index(history[i], <<10>>) < 0
           /\ Valid(history[i])
           /\ Len(history[i]) < ReaderBufSize)
        => /\ CallResult(history, [op |-> "WriteHistory", arg |-> <<>>])
                 = [op |-> "WriteHistory", num |-> Len(history), err |-> "nil"]
           /\ ReadHistoryBody(<<>>, WriteHistoryBody(history), 0)
                 = [history |-> history, num |-> Len(history), err |-> "nil"]

\* C12: in reverseISearch, whatever insertions and backspaces built the
\* pattern, CTRL-R at a match that is not the oldest one for the current
\* pattern moves to the next older match, foundLine and foundPos with it,
\* and does not beep; CTRL-S does the same toward the newer matches.
C12_SearchWalksCurrentMatches ==
    pc = "rsearch" =>
        LET m == getHistoryByPattern(history, String(frame.line))
            older == SearchKey(frame, ctrlR)
            newer == SearchKey(frame, ctrlS)
        IN  /\ (frame.historyPos > 0 /\ frame.historyPos < Len(m.ph))
                  => /\ ~SearchBeeps(frame, ctrlR)
                     /\ older.historyPos = frame.historyPos - 1
                     /\ older.foundLine = m.ph[frame.historyPos]
                     /\ older.foundPos = m.pos[frame.historyPos]
            /\ (frame.historyPos >= 0 /\ frame.historyPos < Len(m.ph) - 1)
                  => /\ ~SearchBeeps(frame, ctrlS)
                     /\ newer.historyPos = frame.historyPos + 1
                     /\ newer.foundLine = m.ph[frame.historyPos + 2]
                     /\ newer.foundPos = m.pos[frame.historyPos + 2]

\* C13: on a kill ring that holds KillRingMax segments, wherever ALT-Y has
\* left the current pointer, a kill that does not follow another kill keeps
\* KillRingMax segments, puts its text in place of the least recently
\* created segment, makes it current and leaves the other segments alone.
C13_FullRingOverwritesOldest ==
    Len(killRing) = KillRingMax =>
        LET text == Segment(Newest(killRing) + 1)
            r == addToKillRing(killRing, text, 0)
        IN  /\ Len(r) = KillRingMax
            /\ Head(r) = text
            /\ {r[i] : i \in 1..Len(r)}
                  = ({killRing[i] : i \in 1..Len(killRing)} \ {Oldest(killRing)})
                        \cup {text}

\* C14: with a completer that has candidates and a kill ring that is not
\* nil, a TAB, CTRL-R or CTRL-Y, read by the main loop or by a sub-mode that
\* hands it back, never comes to the dispatch, whose case for the three keys
\* beeps: the step that reads it does not end a main-loop iteration beeping.
C14_HookKeysNeverDispatched ==
    [][\A c \in {tab, ctrlR, ctrlY} :
          (/\ completer = "word"
           /\ killRing # <<>>
           /\ \/ ReadMain(RuneKey(c))
              \/ ReadTab(RuneKey(c))
              \/ ReadYank(RuneKey(c))
              \/ ReadSearch(RuneKey(c)))
             => ~(pc' = "main" /\ beep')]_vars

C16_ReturnInSubModeAccepts ==
    [][\A c \in {cr, lf} :
          /\ ReadTab(RuneKey(c))
               => /\ pc' = "done"
                  /\ ret' = [op |-> "Prompt", err |-> "nil",
                             line |-> frame.head \o frame.list[frame.listEntry + 1]
                                          \o frame.tail]
          /\ ReadYank(RuneKey(c))
               => /\ pc' = "done"
                  /\ ret' = [op |-> "Prompt", err |-> "nil",
                             line |-> String(frame.lineStart \o Head(killRing)
                                                 \o frame.lineEnd)]
          /\ ReadSearch(RuneKey(c))
               => /\ pc' = "done"
                  /\ ret' = [op |-> "Prompt", err |-> "nil",
                             line |-> frame.foundLine]]_vars

\* C16 (witness): Prompt has returned a line of three code points, one more
\* than the main loop lets the user type here: the line a sub-mode showed
\* when it read CR or LF
C16_Witness ==
    /\ pc = "done"
    /\ ret.err = "nil"
    /\ RuneCountInString(ret.line) = MaxLen + 1

\* C17: tabComplete starts at the first candidate; of its n candidates TAB
\* shows the next one and SHIFT-TAB the one before, both wrapping around, so
\* the candidate shown is the one at (TABs - SHIFT-TABs) mod n; a key other
\* than TAB, SHIFT-TAB and ESC (here cursor left, and a printable code point)
\* is dispatched on the line head ++ pick ++ tail with the cursor at
\* len(head) + len(pick).
C17_TabCyclesAndCommits ==
    [][/\ (ReadMain(RuneKey(tab)) /\ pc' = "tab") => frame'.listEntry = 0
       /\ ReadTab(RuneKey(tab))
            => /\ pc' = "tab"
               /\ frame' = [frame EXCEPT
                               !.listEntry = (@ + 1) % Len(frame.list)]
       /\ ReadTab(ActionKey(shiftTab))
            => /\ pc' = "tab"
               /\ frame' = [frame EXCEPT
                               !.listEntry = (@ - 1) % Len(frame.list)]
       /\ ReadTab(ActionKey(left))
            => /\ pc' = "main"
               /\ line' = Runes(frame.head \o frame.list[frame.listEntry + 1]
                                    \o frame.tail)
               /\ pos' = Len(Runes(frame.head))
                            + Len(Runes(frame.list[frame.listEntry + 1])) - 1
       /\ \A c \in Printable :
             ReadTab(RuneKey(c))
               => /\ pc' = "main"
                  /\ pos' = Len(Runes(frame.head))
                               + Len(Runes(frame.list[frame.listEntry + 1])) + 1
                  /\ line' = InsertAt(Runes(frame.head
                                               \o frame.list[frame.listEntry + 1]
                                               \o frame.tail),
                                      pos' - 1, c)]_vars

\* C17 (witness): tabComplete shows its second candidate between text
\* before and text after the cursor: TAB stepped on from the first one, or
\* SHIFT-TAB wrapped back from it
C17_Witness ==
    /\ pc = "tab"
    /\ frame.listEntry = 1
    /\ frame.head # <<>>
    /\ frame.tail # <<>>

\* C18: ESC read by tabComplete and CTRL-G read by reverseISearch give the
\* main loop back the line and the cursor the sub-mode started with, and
\* the key they hand back changes nothing: buffer, cursor and kill ring
\* after the cancel are those on entry to the sub-mode.
C18_CancelRestores ==
    [][(ReadTab(RuneKey(esc)) \/ ReadSearch(RuneKey(ctrlG)))
          => /\ pc' = "main"
             /\ line' = line
             /\ pos' = pos
             /\ killRing' = killRing]_vars

\* C18 (witness): a search over a line the user typed has found an entry for
\* its pattern and stepped to an older match: the state CTRL-G cancels
C18_Witness ==
    /\ pc = "rsearch"
    /\ line # <<>>
    /\ frame.line # <<>>
    /\ frame.foundLine # <<>>
    /\ frame.historyPos = 0
    /\ Len(frame.history) = 2

\* C19: after every edit of the pattern of reverseISearch (a printable code
\* point inserted, or a backspace that removes one) foundLine is the newest
\* history entry that contains the pattern and foundPos the offset, in the
\* code points of that entry, of the first occurrence; with an empty pattern
\* or no such entry foundLine is "" and foundPos is 0.
C19_FoundIsNewestMatch ==
    pc = "rsearch" =>
        \A v \in Printable \cup {bs} :
            (v \in Printable \/ frame.pos > 0) =>
                LET f == SearchKey(frame, v)
                    hits == {i \in 1..Len(history) :
                                Index(Runes(history[i]), f.line) >= 0}
                IN  IF f.line = <<>> \/ hits = {}
                    THEN f.foundLine = <<>> /\ f.foundPos = 0
                    ELSE LET n == CHOOSE i \in hits : \A j \in hits : j <= i
                         IN  /\ f.foundLine = history[n]
                             /\ f.foundPos = Index(Runes(history[n]), f.line)

\* C20: from any buffer and cursor, a run of kills (CTRL-K, CTRL-U, CTRL-W
\* in any order, each dispatched in the iteration after the one before)
\* that does not itself follow a kill, then CTRL-Y: the line yank shows,
\* which a committing key keeps, is the buffer from before the run.
C20_KillYankRoundTrip ==
    (pc \in Active /\ (pc = "main" => killAction = 0)) =>
        \A n \in 1..MaxRun :
            \A ks \in [1..n -> KillKeys] :
                LET t == KillRun(Handed, ks)
                IN  t.out = "cont"
                      => YankLine([lineStart |-> Slice(t.line, 0, t.pos),
                                   lineEnd |-> Slice(t.line, t.pos, Len(t.line))],
                                  t.killRing) = Handed.line

\* C21: when prompt and buffer do not fit the terminal, the window refresh
\* prints, after clamping and after making room for the markers, is a valid
\* slice of the buffer (0 <= start <= end <= bLen); prompt, markers and
\* window take at most cols - 1 columns; the cursor column is in
\* [pLen, cols - 1].
C21_WindowValid ==
    (ret.op = "refresh" /\ ret.window.wide) =>
        LET w == ret.window
            pLen == RuneCountInString(stripAnsiColorSequences(ret.prompt))
            marks == (IF w.start > 0 THEN 1 ELSE 0)
                        + (IF w.end < w.bLen THEN 1 ELSE 0)
        IN  /\ 0 <= w.start /\ w.start <= w.end /\ w.end <= w.bLen
            /\ pLen + marks + (w.end - w.start) <= columns - 1
            /\ pLen <= w.cursor /\ w.cursor <= columns - 1

\* C22: at the end of every main-loop iteration historyPos is in
\* [0, len(prefixHistory)], and either it is len(prefixHistory) or the
\* buffer is the entry prefixHistory[historyPos], whatever the keys were,
\* history keys handed back by a sub-mode included.
C22_HistoryCursorConsistent ==
    pc = "main" =>
        /\ 0 <= historyPos
        /\ historyPos <= Len(prefixHistory)
        /\ \/ historyPos = Len(prefixHistory)
           \/ line = Runes(prefixHistory[historyPos + 1])

====
